---- MODULE Spec2Model ----
(***************************************************************************)
(* Replication topology discovery, host probing and health assessment of   *)
(* src/reptool/replication_overview.py and its sibling                      *)
(* src/reptool/rds_replication_overview.py.                                 *)
(***************************************************************************)
EXTENDS Integers, Sequences, FiniteSets, TLC

VARIABLES
    script,              \* which of the two scripts runs
    pc,                  \* position of main()
    subsOf,              \* catalog: publisher hosts named by each host's subscriptions
    subsRead,            \* hosts whose pg_subscription read has returned
    slotsOf,             \* catalog: the logical slots each host turned out to have
    subsLeft,            \* subscriptions the catalogs may still turn out to hold
    stack,               \* call stack of dfs()
    visited,             \* discover_replication_topology.visited
    links,               \* topology["links"], in insertion order, as <<publisher, subscriber>>
    link_pairs,          \* discover_replication_topology.link_pairs
    logical_publishers,  \* topology["logical_publishers"]
    logical_subscribers, \* topology["logical_subscribers"]
    connection_cache,    \* hosts whose discovery connection is cached
    connection_pools,    \* per host: does the pool exist, how many connections are checked out
    dfsRuns,             \* history: how often the body of dfs ran for a host
    connects,            \* history: connection attempts of discovery per host
    failedHosts,         \* history: hosts whose connection or query failed in discovery
    tasks,               \* futures submitted to the ThreadPoolExecutor, in submission order
    statuses,            \* main.statuses (instance_statuses of the report)
    reported,            \* the report was assembled and emitted
    probeFn,             \* host prober: process_host or process_host_with_conn
    failing,             \* host prober: the catalog reads that fail on this host
    connFails,           \* host prober: the connection cannot be obtained or used
    ppc,                 \* host prober: position in the probe
    qi,                  \* host prober: index into query_funcs
    status,              \* host prober: the status dict being filled
    executed,            \* host prober, history: the reads issued so far
    conn,                \* host prober: what became of the connection it works on
    instance_statuses,   \* assessor: report['instance_statuses'], in insertion order
    health_status,       \* assessor: the dict assess_replication_health returns
    previous,            \* assessor, history: overall before the last fact was added
    added,               \* assessor, history: the fact added to the report last
    conninfo,            \* parser: the subconninfo string, as its whitespace-separated tokens
    params,              \* parser: what parse_conninfo returned
    catalog,             \* slot decoder: the catalogs of the host the connection is to
    decoded_slots,       \* slot decoder: what decode_temporal_slots returned
    replication_lag      \* older assessor: report['replication_lag'], in insertion order

dvars == <<script, pc, subsOf, subsRead, slotsOf, subsLeft, stack, visited, links, link_pairs,
           logical_publishers, logical_subscribers, connection_cache,
           connection_pools, dfsRuns, connects, failedHosts>>
mvars == <<tasks, statuses, reported>>
pvars == <<probeFn, failing, connFails, ppc, qi, status, executed, conn>>
avars == <<instance_statuses, health_status, previous, added>>
\* the inputs and results of the functions that are checked on their own
fvars == <<conninfo, params, catalog, decoded_slots, replication_lag>>
vars == <<dvars, mvars, pvars, avars, fvars>>
\* the state of discovery that main only reads
topo == <<subsOf, subsRead, slotsOf, subsLeft, stack, visited, links, link_pairs, logical_publishers,
          logical_subscribers, connection_cache, dfsRuns, connects, failedHosts>>

----------------------------------------------------------------------------
(* Bounds and program constants *)

\* the host parse_conninfo returns for a descriptor without a host= token
None == "None"
\* the values dfs is called with: host names, and None
Hosts == {"hA", "hB", None}
start_host == "hA"
Scripts == {"replication_overview", "rds_replication_overview"}

MaxSubs == 2        \* subscriptions in the catalogs of all hosts together (discovery alone)
MaxRunSubs == 1     \* the same, in a whole run of main
MaxDepth == 6       \* cap of the recursion depth of dfs
PoolMin == 1
PoolMax == 5

SeqsUpTo(S, n) == UNION {[1..k -> S] : k \in 0..n}
Range(s) == {s[k] : k \in 1..Len(s)}
Contains(s, x) == \E k \in 1..Len(s) : s[k] = x
Distinct(q) == \A a, b \in 1..Len(q) : a # b => q[a] # q[b]

----------------------------------------------------------------------------
(* Per-host connection pools: get_db_connection, putconn *)

NoPool == [exists |-> FALSE, used |-> 0, closed |-> FALSE]

\* get_db_connection succeeds: the pool is created when missing, one more
\* connection is checked out
GetConn(pools, h) ==
    [pools EXCEPT ![h] = [exists |-> TRUE, used |-> pools[h].used + 1,
                          closed |-> pools[h].closed]]

\* getconn raises PoolError on a saturated or closed pool; a connection
\* attempt may fail for any host
CanGetConn(pools, h) ==
    ~pools[h].exists \/ (pools[h].used < PoolMax /\ ~pools[h].closed)

PutConn(pools, h) ==
    [pools EXCEPT ![h].used = IF @ > 0 THEN @ - 1 ELSE 0]

\* mutant: only the pools whose connections were all returned are closed
CloseAll_returnedOnly(pools) ==
    [h \in Hosts |-> IF pools[h].exists /\ pools[h].used = 0
                     THEN [pools[h] EXCEPT !.closed = TRUE]
                     ELSE pools[h]]

\* for pool in connection_pools.values(): pool.closeall()
\* closeall closes the idle and the checked-out connections of the pool
CloseAll(pools) ==
    [h \in Hosts |-> IF pools[h].exists
                     THEN [pools[h] EXCEPT !.closed = TRUE]
                     ELSE pools[h]]

----------------------------------------------------------------------------
(* discover_replication_topology *)

Frame(h) == [host |-> h, at |-> "enter", i |-> 1]
Top == stack[Len(stack)]
Pop(s) == SubSeq(s, 1, Len(s) - 1)
SetTop(s, f) == [s EXCEPT ![Len(s)] = f]

\* mutant: the host is not recorded as visited
MarkVisited_skipped(v, h) == v

MarkVisited(v, h) == v \cup {h}

\* mutant: the error is not caught in the failing call and unwinds every caller
AbandonBranch_unwindAll(s) == <<>>

\* the except clause of dfs: only the failing host's own frame is left
AbandonBranch(s) == Pop(s)

\* the finally clause of dfs
DfsFinally(pools, h) ==
    IF script = "replication_overview" THEN pools ELSE PutConn(pools, h)

AppendNew(s, x) == IF Contains(s, x) THEN s ELSE Append(s, x)

\* if host in visited: return; visited.add(host)
DfsEnter ==
    /\ UNCHANGED <<pvars, avars, fvars>>
    /\ pc = "discover" /\ stack # <<>> /\ Top.at = "enter"
    /\ IF Top.host \in visited
       THEN /\ stack' = Pop(stack)
            /\ UNCHANGED <<visited, dfsRuns>>
       ELSE /\ visited' = MarkVisited(visited, Top.host)
            /\ dfsRuns' = [dfsRuns EXCEPT ![Top.host] = @ + 1]
            /\ stack' = SetTop(stack, [Top EXCEPT !.at = "connect"])
    /\ UNCHANGED <<mvars, script, pc, subsOf, subsRead, slotsOf, subsLeft, links, link_pairs,
                   logical_publishers, logical_subscribers, connection_cache,
                   connection_pools, connects, failedHosts>>

\* conn = connection_cache[host] or get_db_connection(host, user, password)
DfsConnect ==
    /\ UNCHANGED <<pvars, avars, fvars>>
    /\ pc = "discover" /\ stack # <<>> /\ Top.at = "connect"
    /\ LET h == Top.host IN
       IF script = "replication_overview" /\ h \in connection_cache
       THEN /\ stack' = SetTop(stack, [Top EXCEPT !.at = "subs"])
            /\ UNCHANGED <<connection_cache, connection_pools, connects, failedHosts>>
       ELSE /\ connects' = [connects EXCEPT ![h] = @ + 1]
            /\ \/ /\ CanGetConn(connection_pools, h)
                  /\ connection_pools' = GetConn(connection_pools, h)
                  /\ connection_cache' = IF script = "replication_overview"
                                         THEN connection_cache \cup {h}
                                         ELSE connection_cache
                  /\ stack' = SetTop(stack, [Top EXCEPT !.at = "subs"])
                  /\ UNCHANGED failedHosts
               \/ /\ failedHosts' = failedHosts \cup {h}
                  /\ stack' = AbandonBranch(stack)
                  /\ UNCHANGED <<connection_cache, connection_pools>>
    /\ UNCHANGED <<mvars, script, pc, subsOf, subsRead, slotsOf, subsLeft, visited, links, link_pairs,
                   logical_publishers, logical_subscribers, dfsRuns>>

\* a query of dfs raised psycopg2.Error: finally, then except
DfsQueryFails ==
    /\ UNCHANGED <<pvars, avars, fvars>>
    /\ pc = "discover" /\ stack # <<>> /\ Top.at \in {"subs", "slots", "subs2"}
    /\ failedHosts' = failedHosts \cup {Top.host}
    /\ connection_pools' = DfsFinally(connection_pools, Top.host)
    /\ stack' = AbandonBranch(stack)
    /\ UNCHANGED <<mvars, script, pc, subsOf, subsRead, slotsOf, subsLeft, visited, links, link_pairs,
                   logical_publishers, logical_subscribers, connection_cache,
                   dfsRuns, connects>>

\* SELECT subname, subconninfo FROM pg_subscription
DfsSubscriptions ==
    /\ UNCHANGED <<pvars, avars, fvars>>
    /\ pc = "discover" /\ stack # <<>> /\ Top.at = "subs"
    /\ LET h == Top.host IN
       \E subscriptions \in SeqsUpTo(Hosts, subsLeft) :
          /\ subsOf' = [subsOf EXCEPT ![h] = subscriptions]
          /\ subsLeft' = subsLeft - Len(subscriptions)
          /\ subsRead' = subsRead \cup {h}
          /\ logical_subscribers' =
                IF subscriptions = <<>> THEN logical_subscribers
                ELSE IF script = "replication_overview"
                     THEN AppendNew(logical_subscribers, h)
                     ELSE Append(logical_subscribers, h)
          /\ stack' = SetTop(stack, [Top EXCEPT !.at = "loop", !.i = 1])
    /\ UNCHANGED <<mvars, script, pc, slotsOf, visited, links, link_pairs,
                   logical_publishers, connection_cache, connection_pools, dfsRuns,
                   connects, failedHosts>>

\* for subname, conninfo in subscriptions: record the link, dfs(pub_host, ...)
DfsLoop ==
    /\ UNCHANGED <<pvars, avars, fvars>>
    /\ pc = "discover" /\ stack # <<>> /\ Top.at = "loop"
    /\ LET h == Top.host
           subscriptions == subsOf[h] IN
       IF Top.i <= Len(subscriptions)
       THEN LET pub_host == subscriptions[Top.i]
                link_pair == <<pub_host, h>> IN
            /\ Len(stack) < MaxDepth
            /\ IF script = "replication_overview"
               THEN /\ link_pairs' = link_pairs \cup {link_pair}
                    /\ links' = IF link_pair \in link_pairs THEN links
                                ELSE Append(links, link_pair)
               ELSE /\ links' = Append(links, link_pair)
                    /\ UNCHANGED link_pairs
            /\ stack' = Append(SetTop(stack, [Top EXCEPT !.i = @ + 1]), Frame(pub_host))
       ELSE /\ stack' = SetTop(stack, [Top EXCEPT !.at = "slots"])
            /\ UNCHANGED <<links, link_pairs>>
    /\ UNCHANGED <<mvars, script, pc, subsOf, subsRead, slotsOf, subsLeft, visited, logical_publishers,
                   logical_subscribers, connection_cache, connection_pools,
                   dfsRuns, connects, failedHosts>>

\* what the slot query can return: no row, rows that are all inactive, or
\* rows of which at least one is active
SlotRows == {"none", "inactive", "active"}

\* SELECT slot_name, active FROM pg_replication_slots WHERE slot_type = 'logical'
DfsSlots ==
    /\ UNCHANGED <<pvars, avars, fvars>>
    /\ pc = "discover" /\ stack # <<>> /\ Top.at = "slots"
    /\ LET h == Top.host IN
       \E slots \in SlotRows :
          /\ slotsOf' = [slotsOf EXCEPT ![h] = slots]
          /\ logical_publishers' =
                IF slots = "none" THEN logical_publishers
                ELSE IF script = "replication_overview"
                     THEN AppendNew(logical_publishers, h)
                     ELSE Append(logical_publishers, h)
          /\ stack' = SetTop(stack, [Top EXCEPT !.at =
                IF slots # "none" /\ script = "rds_replication_overview"
                THEN "subs2" ELSE "finally"])
    /\ UNCHANGED <<mvars, script, pc, subsOf, subsRead, subsLeft, visited, links, link_pairs,
                   logical_subscribers, connection_cache, connection_pools,
                   dfsRuns, connects, failedHosts>>

\* rds_replication_overview only: the publisher reads pg_subscription again
DfsSubscriptionsAgain ==
    /\ UNCHANGED <<pvars, avars, fvars>>
    /\ pc = "discover" /\ stack # <<>> /\ Top.at = "subs2"
    /\ stack' = SetTop(stack, [Top EXCEPT !.at = "loop2", !.i = 1])
    /\ UNCHANGED <<mvars, script, pc, subsOf, subsRead, slotsOf, subsLeft, visited, links, link_pairs,
                   logical_publishers, logical_subscribers, connection_cache,
                   connection_pools, dfsRuns, connects, failedHosts>>

\* rds_replication_overview only: for subname, conninfo in new_subscriptions
DfsLoopAgain ==
    /\ UNCHANGED <<pvars, avars, fvars>>
    /\ pc = "discover" /\ stack # <<>> /\ Top.at = "loop2"
    /\ LET h == Top.host
           new_subscriptions == subsOf[h] IN
       IF Top.i <= Len(new_subscriptions)
       THEN LET sub_host == new_subscriptions[Top.i] IN
            /\ Len(stack) < MaxDepth
            /\ links' = Append(links, <<h, sub_host>>)
            /\ stack' = Append(SetTop(stack, [Top EXCEPT !.i = @ + 1]), Frame(sub_host))
       ELSE /\ stack' = SetTop(stack, [Top EXCEPT !.at = "finally"])
            /\ UNCHANGED links
    /\ UNCHANGED <<mvars, script, pc, subsOf, subsRead, slotsOf, subsLeft, visited, link_pairs,
                   logical_publishers, logical_subscribers, connection_cache,
                   connection_pools, dfsRuns, connects, failedHosts>>

\* finally: putconn unless the connection is kept for reuse; dfs returns
DfsReturn ==
    /\ UNCHANGED <<pvars, avars, fvars>>
    /\ pc = "discover" /\ stack # <<>> /\ Top.at = "finally"
    /\ connection_pools' = DfsFinally(connection_pools, Top.host)
    /\ stack' = Pop(stack)
    /\ UNCHANGED <<mvars, script, pc, subsOf, subsRead, slotsOf, subsLeft, visited, links, link_pairs,
                   logical_publishers, logical_subscribers, connection_cache,
                   dfsRuns, connects, failedHosts>>

DfsNext ==
    \/ DfsEnter \/ DfsConnect \/ DfsQueryFails \/ DfsSubscriptions \/ DfsLoop
    \/ DfsSlots \/ DfsSubscriptionsAgain \/ DfsLoopAgain \/ DfsReturn

----------------------------------------------------------------------------
(* main: seed decoding, probe scheduling, collection, report, teardown *)

max_workers == 2    \* config['monitoring']['max_workers']

\* hosts_to_process = topology['logical_publishers'] + topology['logical_subscribers']
hosts_to_process == logical_publishers \o logical_subscribers

\* mutant: the exception of a probe is left in its future
ProcessHostResult_uncaught(raised) == IF raised THEN "raised" ELSE "data"

\* process_host and process_host_with_conn end in "except Exception:
\* return host, {"error": str(e)}": a probe that raised yields an error status
ProcessHostResult(raised) == IF raised THEN "error" ELSE "data"

\* executor.submit(process_host_with_conn, host, connection_cache[host]) or
\* executor.submit(process_host, host, password)
Task(h) ==
    [host |-> h,
     kind |-> IF script = "replication_overview" /\ h \in connection_cache
              THEN "process_host_with_conn" ELSE "process_host",
     st |-> "queued",
     collected |-> FALSE]

TaskIds == 1..Len(tasks)
Running == {t \in TaskIds : tasks[t].st = "running"}
Finished == {t \in TaskIds : tasks[t].st \in {"data", "error", "raised"}
                              /\ ~tasks[t].collected}
TasksOf(h) == {t \in TaskIds : tasks[t].host = h}
\* probes whose query never returns: no connect_timeout or statement_timeout
\* is set on any connection, so a worker stays inside cur.execute
Hung == {t \in TaskIds : tasks[t].st = "hung"}

\* the connection a running probe works on: the cached discovery connection
\* of its host, or the connection it took from the pool itself
ConnOf(t) ==
    IF tasks[t].kind = "process_host_with_conn"
    THEN <<"connection_cache", tasks[t].host>>
    ELSE <<"getconn", t>>
Probing == pc \in {"submit", "collect"}

\* discover_replication_topology returns
MainDiscovered ==
    /\ UNCHANGED <<pvars, avars, fvars>>
    /\ pc = "discover" /\ stack = <<>>
    /\ pc' = IF script = "replication_overview" THEN "seed_connect" ELSE "submit"
    /\ UNCHANGED <<mvars, script, topo, connection_pools>>

\* conn = get_db_connection(start_host, start_user, password)
MainSeedConnect ==
    /\ UNCHANGED <<pvars, avars, fvars>>
    /\ pc = "seed_connect"
    /\ \/ /\ CanGetConn(connection_pools, start_host)
          /\ connection_pools' = GetConn(connection_pools, start_host)
          /\ pc' = "seed_decode"
       \/ /\ pc' = "except"
          /\ UNCHANGED connection_pools
    /\ UNCHANGED <<mvars, script, topo>>

\* temporal_slots = decode_temporal_slots(conn); conn.close()
MainSeedDecode ==
    /\ UNCHANGED <<pvars, avars, fvars>>
    /\ pc = "seed_decode"
    /\ pc' \in {"submit", "except"}
    /\ UNCHANGED <<mvars, script, topo, connection_pools>>

\* for host in hosts_to_process: future_to_host[executor.submit(...)] = host
MainSubmit ==
    /\ UNCHANGED <<pvars, avars, fvars>>
    /\ pc = "submit"
    /\ IF Len(tasks) < Len(hosts_to_process)
       THEN /\ tasks' = Append(tasks, Task(hosts_to_process[Len(tasks) + 1]))
            /\ UNCHANGED pc
       ELSE /\ pc' = "collect"
            /\ UNCHANGED tasks
    /\ UNCHANGED <<statuses, reported, script, topo, connection_pools>>

\* a worker thread takes the oldest queued call
WorkerStart ==
    /\ UNCHANGED <<pvars, avars, fvars>>
    /\ Probing
    /\ Cardinality(Running \cup Hung) < max_workers
    /\ \E t \in TaskIds :
          /\ tasks[t].st = "queued"
          /\ \A u \in 1..(t - 1) : tasks[u].st # "queued"
          /\ IF tasks[t].kind = "process_host"
             THEN \* conn = get_db_connection(host)
                  \/ /\ CanGetConn(connection_pools, tasks[t].host)
                     /\ connection_pools' = GetConn(connection_pools, tasks[t].host)
                     /\ tasks' = [tasks EXCEPT ![t].st = "running"]
                  \/ /\ tasks' = [tasks EXCEPT ![t].st = ProcessHostResult(TRUE)]
                     /\ UNCHANGED connection_pools
             ELSE /\ tasks' = [tasks EXCEPT ![t].st = "running"]
                  /\ UNCHANGED connection_pools
    /\ UNCHANGED <<statuses, reported, script, pc, topo>>

\* the probe runs its queries on its connection and returns
WorkerFinish ==
    /\ UNCHANGED <<pvars, avars, fvars>>
    /\ Probing
    /\ \E t \in Running : \E raised \in BOOLEAN :
          /\ tasks' = [tasks EXCEPT ![t].st = ProcessHostResult(raised)]
          /\ connection_pools' =
                IF tasks[t].kind = "process_host"
                THEN PutConn(connection_pools, tasks[t].host)
                ELSE connection_pools
    /\ UNCHANGED <<statuses, reported, script, pc, topo>>

\* the host accepts the query and never answers it: the worker thread stays
\* blocked in the probe and its future never completes
WorkerHangs ==
    /\ UNCHANGED <<pvars, avars, fvars>>
    /\ Probing
    /\ \E t \in Running : tasks' = [tasks EXCEPT ![t].st = "hung"]
    /\ UNCHANGED <<statuses, reported, script, pc, topo, connection_pools>>

\* for future in as_completed(future_to_host):
\*     host, status = future.result(); statuses[host] = status
MainCollect ==
    /\ UNCHANGED <<pvars, avars, fvars>>
    /\ pc = "collect"
    /\ \E t \in Finished :
          IF tasks[t].st = "raised"
          THEN /\ pc' = "except"
               /\ UNCHANGED <<tasks, statuses>>
          ELSE /\ statuses' = [statuses EXCEPT ![tasks[t].host] = tasks[t].st]
               /\ tasks' = [tasks EXCEPT ![t].collected = TRUE]
               /\ UNCHANGED pc
    /\ UNCHANGED <<reported, script, topo, connection_pools>>

\* every future was yielded; report = generate_replication_report(...),
\* report['health_assessment'] = assess_replication_health(report)
MainReport ==
    /\ UNCHANGED <<pvars, avars, fvars>>
    /\ pc = "collect"
    /\ \A t \in TaskIds : tasks[t].collected
    /\ reported' = TRUE
    /\ pc' = "output"
    /\ UNCHANGED <<tasks, statuses, script, topo, connection_pools>>

\* json.dumps, print and the write of the report file: done, or an exception
\* (an unwritable file) that goes to "except Exception"
MainOutput ==
    /\ UNCHANGED <<pvars, avars, fvars>>
    /\ pc = "output"
    /\ pc' \in {"finally", "except"}
    /\ UNCHANGED <<mvars, script, topo, connection_pools>>

\* except Exception as e: handle_exception(e, "main execution")
MainExcept ==
    /\ UNCHANGED <<pvars, avars, fvars>>
    /\ pc = "except"
    /\ pc' = "finally"
    /\ UNCHANGED <<mvars, script, topo, connection_pools>>

\* finally: for pool in connection_pools.values(): pool.closeall()
MainFinally ==
    /\ UNCHANGED <<pvars, avars, fvars>>
    /\ pc = "finally"
    /\ connection_pools' = CloseAll(connection_pools)
    /\ pc' = "done"
    /\ UNCHANGED <<mvars, script, topo>>

MainNext ==
    \/ MainDiscovered \/ MainSeedConnect \/ MainSeedDecode \/ MainSubmit
    \/ WorkerStart \/ WorkerFinish \/ WorkerHangs \/ MainCollect \/ MainReport
    \/ MainOutput \/ MainExcept \/ MainFinally

----------------------------------------------------------------------------
(* Host prober: process_host and process_host_with_conn *)

ProbeFns == {"process_host", "process_host_with_conn"}

\* the catalog reads of one probe
Reads == {"temporal", "slots", "lsn", "rate", "ownership", "inactive"}

\* the list the probe iterates over, after decode_temporal_slots
query_funcs == <<"slots", "lsn", "rate", "ownership", "inactive">>

EmptyStatus ==
    [error |-> "absent", replication_slots |-> "absent", lagging_slots |-> "absent",
     temporal_info |-> "absent", owner |-> "absent", current_lsn |-> "absent",
     wal_generation_rate_bytes_per_sec |-> "absent",
     wal_generation_rate_mb_per_sec |-> "absent",
     inactive_replication |-> "absent"]

\* return host, {"error": str(e)}
ErrorStatus == [EmptyStatus EXCEPT !.error = "message"]

\* mutant: decode_temporal_slots is guarded like the reads of the loop
AfterDecode_guarded(fails) == "queries"

\* decode_temporal_slots(conn) is called outside the per-query handlers: its
\* exception leaves the with block and reaches "except Exception"
AfterDecode(fails) == IF fails THEN "raise" ELSE "queries"

\* _get_replication_slots, with the decoded temporal slots merged in
GetReplicationSlots(st, fails, decoded) ==
    IF fails
    THEN [st EXCEPT !.replication_slots = "empty", !.lagging_slots = "empty"]
    ELSE [st EXCEPT !.replication_slots = "data", !.lagging_slots = "data",
                    !.temporal_info = IF decoded THEN "data" ELSE "absent"]

\* _get_current_lsn
GetCurrentLsn(st, fails) ==
    [st EXCEPT !.current_lsn = IF fails THEN "unknown" ELSE "data"]

\* _get_wal_generation_rate
GetWalGenerationRate(st, fails) ==
    [st EXCEPT !.wal_generation_rate_bytes_per_sec = IF fails THEN "zero" ELSE "data",
               !.wal_generation_rate_mb_per_sec = IF fails THEN "zero" ELSE "data"]

\* _get_subscription_ownership: annotates the entries of status["replication_slots"]
GetSubscriptionOwnership(st, fails) ==
    IF ~fails /\ st.replication_slots = "data" THEN [st EXCEPT !.owner = "data"] ELSE st

\* _check_inactive_replication
CheckInactiveReplication(st, fails) ==
    [st EXCEPT !.inactive_replication = IF fails THEN "error_dict" ELSE "data"]

QueryFunc(q, st, fails, decoded) ==
    CASE q = "slots" -> GetReplicationSlots(st, fails, decoded)
      [] q = "lsn" -> GetCurrentLsn(st, fails)
      [] q = "rate" -> GetWalGenerationRate(st, fails)
      [] q = "ownership" -> GetSubscriptionOwnership(st, fails)
      [] q = "inactive" -> CheckInactiveReplication(st, fails)

\* the host argument of the probe
probed_host == start_host

\* the other variables of a run, which a probe leaves alone
runvars == <<script, pc, subsOf, subsRead, slotsOf, subsLeft, stack, visited, links, link_pairs,
             logical_publishers, logical_subscribers, connection_cache,
             dfsRuns, connects, failedHosts>>

\* mutant: getconn waits for a connection to be returned to a saturated pool
AcquireOutcome_waits(pools, h, fails) ==
    IF ~CanGetConn(pools, h) THEN "wait" ELSE IF fails THEN "raise" ELSE "conn"

\* conn = get_db_connection(host): connection_pools[host].getconn() returns
\* a connection or raises, PoolError on a saturated pool included
AcquireOutcome(pools, h, fails) ==
    IF fails \/ ~CanGetConn(pools, h) THEN "raise" ELSE "conn"

\* process_host: finally: connection_pools[host].putconn(conn)
ProbePutConn(pools) ==
    IF probeFn = "process_host" THEN PutConn(pools, probed_host) ELSE pools

\* process_host: finally: connection_pools[host].putconn(conn)
ProbeFinally(c) == IF probeFn = "process_host" THEN "putconn" ELSE c

\* process_host_with_conn: except Exception: conn.rollback()
ProbeExcept(c) == IF probeFn = "process_host_with_conn" THEN "rolled_back" ELSE c

\* conn = get_db_connection(host); conn.autocommit = True (process_host), or
\* the rollback to a clean state and conn.cursor() (process_host_with_conn)
ProbeConnect ==
    /\ UNCHANGED <<runvars, mvars, avars, fvars>>
    /\ ppc = "connect"
    /\ IF probeFn = "process_host"
       THEN LET outcome == AcquireOutcome(connection_pools, probed_host, connFails) IN
            /\ outcome # "wait"
            /\ IF outcome = "raise"
               THEN /\ status' = ErrorStatus /\ ppc' = "returned"
                    /\ UNCHANGED <<conn, connection_pools>>
               ELSE /\ ppc' = "decode" /\ conn' = "checked_out"
                    /\ connection_pools' = GetConn(connection_pools, probed_host)
                    /\ UNCHANGED status
       ELSE /\ IF connFails
               THEN status' = ErrorStatus /\ ppc' = "returned" /\ conn' = ProbeExcept(conn)
               ELSE ppc' = "decode" /\ UNCHANGED <<status, conn>>
            /\ UNCHANGED connection_pools
    /\ UNCHANGED <<probeFn, failing, connFails, qi, executed>>

\* decoded_temporal_slots = decode_temporal_slots(conn)
ProbeDecode ==
    /\ UNCHANGED <<runvars, mvars, avars, fvars>>
    /\ ppc = "decode"
    /\ executed' = executed \cup {"temporal"}
    /\ IF AfterDecode("temporal" \in failing) = "raise"
       THEN /\ status' = ErrorStatus
            /\ ppc' = "returned"
            /\ conn' = ProbeExcept(ProbeFinally(conn))
            /\ connection_pools' = ProbePutConn(connection_pools)
       ELSE ppc' = "queries" /\ UNCHANGED <<status, conn, connection_pools>>
    /\ UNCHANGED <<probeFn, failing, connFails, qi>>

\* for query_func in [...]: query_func(cur, status, host)
ProbeQuery ==
    /\ UNCHANGED <<dvars, mvars, avars, fvars>>
    /\ ppc = "queries" /\ qi <= Len(query_funcs)
    /\ status' = QueryFunc(query_funcs[qi], status, query_funcs[qi] \in failing,
                            "temporal" \notin failing)
    /\ executed' = executed \cup {query_funcs[qi]}
    /\ qi' = qi + 1
    /\ UNCHANGED <<probeFn, failing, connFails, ppc, conn>>

\* return host, status
ProbeReturn ==
    /\ UNCHANGED <<runvars, mvars, avars, fvars>>
    /\ ppc = "queries" /\ qi > Len(query_funcs)
    /\ ppc' = "returned"
    /\ conn' = ProbeFinally(conn)
    /\ connection_pools' = ProbePutConn(connection_pools)
    /\ UNCHANGED <<probeFn, failing, connFails, qi, status, executed>>

ProbeNext == ProbeConnect \/ ProbeDecode \/ ProbeQuery \/ ProbeReturn

\* what a read leaves in the status when it succeeded; the owner and the
\* decoded temporal data live inside the slot entries
Populated(r, st) ==
    CASE r = "slots" -> st.replication_slots = "data" /\ st.lagging_slots = "data"
      [] r = "temporal" -> st.replication_slots = "data" => st.temporal_info = "data"
      [] r = "ownership" -> st.replication_slots = "data" => st.owner = "data"
      [] r = "lsn" -> st.current_lsn = "data"
      [] r = "rate" -> /\ st.wal_generation_rate_bytes_per_sec = "data"
                       /\ st.wal_generation_rate_mb_per_sec = "data"
      [] r = "inactive" -> st.inactive_replication = "data"

\* what a read leaves in the status when it failed
Unknown(r, st) ==
    CASE r = "slots" -> st.replication_slots = "empty" /\ st.lagging_slots = "empty"
      [] r = "temporal" -> st.temporal_info = "absent"
      [] r = "ownership" -> st.owner = "absent"
      [] r = "lsn" -> st.current_lsn = "unknown"
      [] r = "rate" -> /\ st.wal_generation_rate_bytes_per_sec = "zero"
                       /\ st.wal_generation_rate_mb_per_sec = "zero"
      [] r = "inactive" -> st.inactive_replication = "error_dict"

----------------------------------------------------------------------------
(* Health assessor: assess_replication_health *)

MaxReportHosts == 2     \* hosts in instance_statuses
MaxSlots == 1           \* replication slots of one host
MaxInactive == 1        \* inactive slots, and disabled subscriptions, of one host

\* host names as their dot-separated labels
ReportHosts == {<<"db1">>, <<"db2", "east">>}
SlotNames == {"sub_a", "sub_b"}
\* names of the subscriptions that inactive_replication lists as disabled
SubscriptionNames == {"sub_d"}
\* lag_mb = lag_bytes / (1024 * 1024), here for whole numbers of megabytes
LagMbValues == {5, 10, 50, 100, 150}
WalRateMbValues == {0, 11}
\* connection_state (from pg_stat_replication, "none" when no peer) and active
SlotConns == {<<"streaming", TRUE>>, <<"none", FALSE>>, <<"none", TRUE>>}

SlotInfos ==
    {[name |-> n, lag_mb |-> l, connection_state |-> c[1], active |-> c[2]] :
        n \in SlotNames, l \in LagMbValues, c \in SlotConns}

\* a dict keyed by slot name, in insertion order
SlotDicts ==
    {q \in SeqsUpTo(SlotInfos, MaxSlots) : Distinct([k \in 1..Len(q) |-> q[k].name])}

\* the status a probe returns: {"error": message}, or the collected fields
HostStatuses ==
    {[error |-> TRUE, replication_slots |-> <<>>,
      wal_generation_rate_mb_per_sec |-> 0, inactive_slots |-> <<>>,
      disabled_subscriptions |-> <<>>]}
    \cup
    {[error |-> FALSE, replication_slots |-> d,
      wal_generation_rate_mb_per_sec |-> w, inactive_slots |-> i,
      disabled_subscriptions |-> u] :
        d \in SlotDicts, w \in WalRateMbValues, i \in SeqsUpTo(SlotNames, MaxInactive),
        u \in SeqsUpTo(SubscriptionNames, MaxInactive)}

\* instance_statuses: a dict keyed by host, in insertion order
StatusMaps ==
    {m \in SeqsUpTo([host : ReportHosts, status : HostStatuses], MaxReportHosts) :
        Distinct([k \in 1..Len(m) |-> m[k].host])}

\* get_short_hostname
get_short_hostname(host) == Head(host)

\* the connection state recorded in slot_states for a slot
SlotState(slot_info) ==
    IF slot_info.connection_state # "none" THEN slot_info.connection_state
    ELSE IF slot_info.active = FALSE THEN "inactive"
    ELSE "unknown"

NoStates == [n \in SlotNames |-> "absent"]

InitialHealth ==
    [overall |-> "HEALTHY", issues |-> <<>>, recommendations |-> <<>>,
     slots_with_lag |-> <<>>, inactive_slots |-> <<>>, slot_states |-> NoStates]

\* mutant: a WARNING rule overwrites a CRITICAL set by an earlier rule
Warn_downgrading(overall) == "WARNING"

\* if health_status['overall'] != 'CRITICAL': health_status['overall'] = 'WARNING'
Warn(overall) == IF overall # "CRITICAL" THEN "WARNING" ELSE overall

\* the body of the loop over status['replication_slots'].items()
LagStep(h, host, slot_info) ==
    LET state == SlotState(slot_info)
        h1 == [h EXCEPT !.slot_states[slot_info.name] = state]
        issue(kind) == [kind |-> kind, slot |-> slot_info.name,
                        host |-> get_short_hostname(host), state |-> state]
    IN  IF slot_info.lag_mb > 100
        THEN [h1 EXCEPT !.issues = Append(@, issue("critical_lag")),
                        !.slots_with_lag = Append(@, <<slot_info.name, host>>),
                        !.overall = "CRITICAL"]
        ELSE IF slot_info.lag_mb > 10
        THEN [h1 EXCEPT !.issues = Append(@, issue("high_lag")),
                        !.slots_with_lag = Append(@, <<slot_info.name, host>>),
                        !.overall = Warn(@)]
        ELSE h1

RECURSIVE LagSlots(_, _, _)
LagSlots(h, host, slots) ==
    IF slots = <<>> THEN h
    ELSE LagSlots(LagStep(h, host, Head(slots)), host, Tail(slots))

\* first loop: slot lag
RECURSIVE LagLoop(_, _)
LagLoop(h, m) ==
    IF m = <<>> THEN h
    ELSE LagLoop(LagSlots(h, Head(m).host, Head(m).status.replication_slots), Tail(m))

\* second loop: WAL generation rate
RECURSIVE WalLoop(_, _)
WalLoop(h, m) ==
    IF m = <<>> THEN h
    ELSE LET host == Head(m).host
             wal_rate_mb == Head(m).status.wal_generation_rate_mb_per_sec
             h1 == IF wal_rate_mb > 10
                   THEN [h EXCEPT !.issues = Append(@, [kind |-> "high_wal", slot |-> "none",
                                        host |-> get_short_hostname(host), state |-> "none"]),
                                  !.overall = Warn(@)]
                   ELSE h
         IN WalLoop(h1, Tail(m))

RECURSIVE InactiveSlots(_, _, _)
InactiveSlots(h, host, slots) ==
    IF slots = <<>> THEN h
    ELSE InactiveSlots(
            [h EXCEPT !.issues = Append(@, [kind |-> "inactive_slot", slot |-> Head(slots),
                                  host |-> get_short_hostname(host), state |-> "none"]),
                      !.inactive_slots = Append(@, <<Head(slots), host>>),
                      !.overall = Warn(@)],
            host, Tail(slots))

\* third loop: inactive replication
RECURSIVE InactiveLoop(_, _)
InactiveLoop(h, m) ==
    IF m = <<>> THEN h
    ELSE InactiveLoop(InactiveSlots(h, Head(m).host, Head(m).status.inactive_slots), Tail(m))

\* a recommendation string, as the template it is formatted from and the
\* values formatted into it
Recommendation(kind, slot, host, state, slots, more, counts) ==
    [kind |-> kind, slot |-> slot, host |-> host, state |-> state,
     slots |-> slots, more |-> more, counts |-> counts]

\* the templates, in the order of their texts:
\*   "Check for blocking transactions on subscriber connected to {slot} on {host} (state: {state})"
\*   "Check for blocking transactions on subscribers in {state} state: {slots} and {more} more"
\*   "Check if subscribers are down or reactivate slots if needed"
\*   "Check if the subscriber connected to {slot} on {host} is down or reactivate the slot"
\*   "Connection state summary: {counts}"
\*   "For {state} slots: ..."
\*   "Inactive replication slots detected: {slots} and {more} more"
Templates ==
    <<"blocking_slot", "blocking_state", "subscribers_down", "subscriber_of_slot",
      "state_summary", "for_state", "inactive_detected">>

\* the texts formatted into the templates, in the order of str comparison
Texts ==
    <<"", "db1", "db2", "db3", "db4", "db5", "inactive", "streaming", "sub_a", "sub_b",
      "unknown">>

IndexIn(q, x) == CHOOSE k \in 1..Len(q) : q[k] = x

\* a < b for two recommendation strings: the templates differ before their
\* first placeholder, and within a template the placeholders compare in turn
StrLess(a, b) ==
    IF a.kind # b.kind THEN IndexIn(Templates, a.kind) < IndexIn(Templates, b.kind)
    ELSE IF a.slot # b.slot THEN IndexIn(Texts, a.slot) < IndexIn(Texts, b.slot)
    ELSE IF a.host # b.host THEN IndexIn(Texts, a.host) < IndexIn(Texts, b.host)
    ELSE IF a.state # b.state THEN IndexIn(Texts, a.state) < IndexIn(Texts, b.state)
    ELSE FALSE

\* mutant: the list starts with its greatest string
First_greatest(S) == CHOOSE y \in S : \A z \in S \ {y} : StrLess(z, y)

\* the first element of a sorted list: the least string
First(S) == CHOOSE y \in S : \A z \in S \ {y} : StrLess(y, z)

\* sorted(list(health_status['recommendations']))
RECURSIVE sorted(_)
sorted(S) ==
    IF S = {} THEN <<>>
    ELSE LET x == First(S) IN <<x>> \o sorted(S \ {x})

\* mutant: up to four affected slots get a recommendation each
PerSlot_atMostFour(affected) == Len(affected) <= 4

\* if len(slots_with_lag) <= 3, if len(inactive_slots) <= 3
PerSlot(affected) == Len(affected) <= 3

\* slots[:3]
FirstThree(q) == SubSeq(q, 1, IF Len(q) < 3 THEN Len(q) ELSE 3)

\* len(slots) - 3 of ' and N more', 0 when the suffix is not appended
More(q) == IF Len(q) > 3 THEN Len(q) - 3 ELSE 0

\* the values of slot_states
StatesOf(h) == {h.slot_states[n] : n \in SlotNames} \ {"absent"}

\* by_state[state]: the names of the lagging slots whose name has this state
RECURSIVE ByState(_, _, _)
ByState(h, state, lagging) ==
    IF lagging = <<>> THEN <<>>
    ELSE (IF h.slot_states[Head(lagging)[1]] = state THEN <<Head(lagging)[1]>> ELSE <<>>)
         \o ByState(h, state, Tail(lagging))

\* if slots_with_lag: one recommendation per slot, or one per state
LagRecommendations(h) ==
    IF h.slots_with_lag = <<>> THEN {}
    ELSE IF PerSlot(h.slots_with_lag)
    THEN {Recommendation("blocking_slot", p[1], get_short_hostname(p[2]),
                         h.slot_states[p[1]], <<>>, 0, <<>>) : p \in Range(h.slots_with_lag)}
    ELSE {Recommendation("blocking_state", "", "", state,
                         FirstThree(ByState(h, state, h.slots_with_lag)),
                         More(ByState(h, state, h.slots_with_lag)), <<>>) :
             state \in {h.slot_states[p[1]] : p \in Range(h.slots_with_lag)}}

\* if inactive_slots: one recommendation per slot, or the list and a general one
InactiveRecommendations(h) ==
    IF h.inactive_slots = <<>> THEN {}
    ELSE IF PerSlot(h.inactive_slots)
    THEN {Recommendation("subscriber_of_slot", p[1], get_short_hostname(p[2]), "",
                         <<>>, 0, <<>>) : p \in Range(h.inactive_slots)}
    ELSE {Recommendation("inactive_detected", "", "", "",
                         [k \in DOMAIN FirstThree(h.inactive_slots) |-> h.inactive_slots[k][1]],
                         More(h.inactive_slots), <<>>),
          Recommendation("subscribers_down", "", "", "", <<>>, 0, <<>>)}

\* sorted(state_counts.items()): per state, the number of slot names in it
StateCounts(h) ==
    LET count(state) == Cardinality({n \in SlotNames : h.slot_states[n] = state})
        RECURSIVE items(_)
        items(S) == IF S = {} THEN <<>>
                    ELSE LET x == CHOOSE y \in S : \A z \in S :
                                      IndexIn(Texts, y) <= IndexIn(Texts, z)
                         IN  <<<<x, count(x)>>>> \o items(S \ {x})
    IN  items(StatesOf(h))

\* if slots_with_lag or inactive_slots: the summary and one text per state
StateRecommendations(h) ==
    IF h.slots_with_lag = <<>> /\ h.inactive_slots = <<>> THEN {}
    ELSE {Recommendation("state_summary", "", "", "", <<>>, 0, StateCounts(h))}
         \cup {Recommendation("for_state", "", "", state, <<>>, 0, <<>>) :
                  state \in StatesOf(h)}

\* the recommendations part of assess_replication_health
Recommend(h) ==
    [h EXCEPT !.recommendations =
        sorted(LagRecommendations(h) \cup InactiveRecommendations(h)
               \cup StateRecommendations(h))]

assess_replication_health(m) ==
    Recommend(InactiveLoop(WalLoop(LagLoop(InitialHealth, m), m), m))

NotAssessed == [InitialHealth EXCEPT !.overall = "none"]

\* report['health_assessment'] = assess_replication_health(report)
Assess ==
    /\ UNCHANGED <<dvars, mvars, pvars, fvars>>
    /\ health_status = NotAssessed
    /\ health_status' = assess_replication_health(instance_statuses)
    /\ UNCHANGED <<instance_statuses, previous, added>>

MaxFacts == 4       \* hosts, slots and inactive slots of a report that grows

NoFact == [kind |-> "none", lag_mb |-> 0]

\* HEALTHY < WARNING < CRITICAL
Rank(overall) ==
    CASE overall = "HEALTHY" -> 0
      [] overall = "WARNING" -> 1
      [] overall = "CRITICAL" -> 2

RECURSIVE FactCount(_)
FactCount(m) ==
    IF m = <<>> THEN 0
    ELSE 1 + Len(Head(m).status.replication_slots) + Len(Head(m).status.inactive_slots)
           + FactCount(Tail(m))

\* the status of a host before any slot is listed in it
NewHostStatuses ==
    {[error |-> TRUE, replication_slots |-> <<>>,
      wal_generation_rate_mb_per_sec |-> 0, inactive_slots |-> <<>>,
      disabled_subscriptions |-> <<>>]}
    \cup
    {[error |-> FALSE, replication_slots |-> <<>>,
      wal_generation_rate_mb_per_sec |-> w, inactive_slots |-> <<>>,
      disabled_subscriptions |-> <<>>] : w \in WalRateMbValues}

\* the report is m from now on and is assessed again
Reassess(m, fact) ==
    /\ UNCHANGED <<dvars, mvars, pvars, fvars>>
    /\ FactCount(instance_statuses) < MaxFacts
    /\ instance_statuses' = m
    /\ health_status' = assess_replication_health(m)
    /\ previous' = health_status.overall
    /\ added' = fact

\* one more host in report['instance_statuses']
AddHostStatus ==
    \E host \in ReportHosts, st \in NewHostStatuses :
       /\ \A k \in 1..Len(instance_statuses) : instance_statuses[k].host # host
       /\ Reassess(Append(instance_statuses, [host |-> host, status |-> st]),
                   [kind |-> "host_status", lag_mb |-> 0])

\* one more entry in a host's status['replication_slots']
AddSlot ==
    \E k \in 1..Len(instance_statuses), slot_info \in SlotInfos :
       /\ ~instance_statuses[k].status.error
       /\ \A s \in Range(instance_statuses[k].status.replication_slots) :
             s.name # slot_info.name
       /\ Reassess([instance_statuses EXCEPT
                       ![k].status.replication_slots = Append(@, slot_info)],
                   [kind |-> "slot", lag_mb |-> slot_info.lag_mb])

\* one more entry in a host's inactive_replication['inactive_slots']
AddInactiveSlot ==
    \E k \in 1..Len(instance_statuses), n \in SlotNames :
       /\ ~instance_statuses[k].status.error
       /\ n \notin Range(instance_statuses[k].status.inactive_slots)
       /\ Reassess([instance_statuses EXCEPT
                       ![k].status.inactive_slots = Append(@, n)],
                   [kind |-> "inactive_slot", lag_mb |-> 0])

ReassessNext == AddHostStatus \/ AddSlot \/ AddInactiveSlot

MaxRecHosts == 4    \* hosts of a report whose recommendations are grouped

\* the hosts of such a report; the first two have the same short name
RecHostList ==
    <<<<"db1", "east">>, <<"db1", "west">>, <<"db2">>, <<"db3">>, <<"db4">>, <<"db5">>>>

\* what one host contributes: nothing at all (it is not in the report), no
\* slot, one slot, one inactive slot, or a slot that is also listed inactive
RecChoices ==
    {[present |-> FALSE, replication_slots |-> <<>>, inactive_slots |-> <<>>],
     [present |-> TRUE, replication_slots |-> <<>>, inactive_slots |-> <<>>],
     [present |-> TRUE,
      replication_slots |-> <<[name |-> "sub_a", lag_mb |-> 5,
                               connection_state |-> "streaming", active |-> TRUE]>>,
      inactive_slots |-> <<>>],
     [present |-> TRUE,
      replication_slots |-> <<[name |-> "sub_a", lag_mb |-> 50,
                               connection_state |-> "none", active |-> FALSE]>>,
      inactive_slots |-> <<"sub_a">>]}
    \cup {[present |-> TRUE,
           replication_slots |-> <<[name |-> n, lag_mb |-> 50,
                                    connection_state |-> c[1], active |-> c[2]]>>,
           inactive_slots |-> <<>>] :
             n \in SlotNames, c \in {<<"streaming", TRUE>>, <<"none", FALSE>>}}
    \cup {[present |-> TRUE, replication_slots |-> <<>>, inactive_slots |-> <<n>>] :
             n \in SlotNames}

\* instance_statuses with the hosts inserted in the order idx
RECURSIVE MapOf(_, _)
MapOf(g, idx) ==
    IF idx = <<>> THEN <<>>
    ELSE (IF g[Head(idx)].present
          THEN <<[host |-> RecHostList[Head(idx)],
                  status |-> [error |-> FALSE,
                              replication_slots |-> g[Head(idx)].replication_slots,
                              wal_generation_rate_mb_per_sec |-> 0,
                              inactive_slots |-> g[Head(idx)].inactive_slots,
                              disabled_subscriptions |-> <<>>]]>>
          ELSE <<>>)
         \o MapOf(g, Tail(idx))

\* the reports of up to n hosts, completed in ascending or in descending order
RecMaps(n) ==
    {MapOf(g, idx) : g \in [1..n -> RecChoices],
                     idx \in {[k \in 1..n |-> k], [k \in 1..n |-> n + 1 - k]}}

----------------------------------------------------------------------------
(* assess_replication_health of src/rds_replication_overview.py *)

MaxRdsHosts == 3    \* hosts in instance_statuses of the older script
MaxLinks == 2       \* entries of report['replication_lag']

RdsHosts == {"db1", "db2", "db3"}

\* a probe's status as this function reads it: the error marker, or whether
\* inactive slots and schema differences are listed
RdsStatuses ==
    {[error |-> TRUE, inactive_slots |-> FALSE, schema_differences |-> FALSE]}
    \cup {[error |-> FALSE, inactive_slots |-> i, schema_differences |-> d] :
             i \in BOOLEAN, d \in BOOLEAN}

RdsStatusMaps ==
    {m \in SeqsUpTo([host : RdsHosts, status : RdsStatuses], MaxRdsHosts) :
        Distinct([k \in 1..Len(m) |-> m[k].host])}

\* a lag in bytes, or None when an LSN could not be parsed
OneMegabyte == 1000000
Lags ==
    {[none |-> TRUE, bytes |-> 0]}
    \cup {[none |-> FALSE, bytes |-> b] : b \in {OneMegabyte, OneMegabyte + 1}}

\* for link, lag in report['replication_lag'].items()
RECURSIVE RdsLagLoop(_, _)
RdsLagLoop(h, lags) ==
    IF lags = <<>> THEN h
    ELSE RdsLagLoop(IF ~Head(lags).none /\ Head(lags).bytes > OneMegabyte
                    THEN [h EXCEPT !.issues = Append(@, "high_lag"),
                                   !.overall = "WARNING"]
                    ELSE h,
                    Tail(lags))

\* the body of the loop over report['instance_statuses'].items()
RdsHostStep(h, st) ==
    LET h1 == IF st.inactive_slots
              THEN [h EXCEPT !.issues = Append(@, "inactive_slots"), !.overall = "WARNING"]
              ELSE h
        h2 == IF st.schema_differences
              THEN [h1 EXCEPT !.issues = Append(@, "schema_differences"),
                              !.overall = "WARNING"]
              ELSE h1
    IN  IF st.error
        THEN [h2 EXCEPT !.issues = Append(@, "error"), !.overall = "CRITICAL"]
        ELSE h2

RECURSIVE RdsHostLoop(_, _)
RdsHostLoop(h, m) ==
    IF m = <<>> THEN h ELSE RdsHostLoop(RdsHostStep(h, Head(m).status), Tail(m))

\* if len(health_status['issues']) > 5: health_status['overall'] = 'CRITICAL'
RdsManyIssues(h) ==
    IF Len(h.issues) > 5 THEN [h EXCEPT !.overall = "CRITICAL"] ELSE h

rds_assess_replication_health(lags, m) ==
    RdsManyIssues(RdsHostLoop(RdsLagLoop([overall |-> "HEALTHY", issues |-> <<>>], lags), m))

\* report['health_assessment'] = assess_replication_health(report)
RdsAssess ==
    /\ UNCHANGED <<dvars, mvars, pvars>>
    /\ health_status = NotAssessed
    /\ health_status' = rds_assess_replication_health(replication_lag, instance_statuses)
    /\ UNCHANGED <<instance_statuses, previous, added, fvars>>

----------------------------------------------------------------------------
(* parse_conninfo, of replication_overview.py and of temporal_slot_checker.py *)

MaxTokens == 2      \* whitespace-separated tokens of a descriptor

\* the text before the first '=' of a token; "" in the token "=value"
KeyPieces == {"host", "user", "password", "dbname", ""}
\* the texts between and after the '=' signs of a token
ValuePieces == {"", "pub1"}

\* a token, as the pieces its '=' signs separate it into: <<"host">> is the
\* token "host", <<"host", "pub1">> is "host=pub1", <<"host", "pub1", "">> is
\* "host=pub1="; str.split() yields no empty token
Tokens ==
    {<<k>> : k \in KeyPieces \ {""}}
    \cup {<<k, v>> : k \in KeyPieces, v \in ValuePieces}
    \cup {<<k, v, w>> : k \in KeyPieces, v \in ValuePieces, w \in ValuePieces}

\* conninfo.split()
Descriptors == SeqsUpTo(Tokens, MaxTokens)

\* mutant: the token is tested for the key alone, without the '=' after it
StartsWith_keyOnly(part, key) == part[1] = key

\* part.startswith(key + '=')
StartsWith(part, key) == Len(part) >= 2 /\ part[1] = key

NotParsed == [by |-> "none", raised |-> FALSE]

\* host = user = password = None
NoParams == [by |-> "replication_overview", raised |-> FALSE,
             host |-> None, user |-> None, password |-> None]

\* part.split('=')[1] assigned to the variable named key; IndexError when the
\* split has one piece only
Take(r, part, key) ==
    IF Len(part) >= 2
    THEN [r EXCEPT ![key] = part[2]]
    ELSE [r EXCEPT !.raised = TRUE]

\* the body of the loop over conninfo.split()
ParseStep(r, part) ==
    IF r.raised THEN r
    ELSE IF StartsWith(part, "host") THEN Take(r, part, "host")
    ELSE IF StartsWith(part, "user") THEN Take(r, part, "user")
    ELSE IF StartsWith(part, "password") THEN Take(r, part, "password")
    ELSE r

RECURSIVE ParseParts(_, _)
ParseParts(r, parts) ==
    IF parts = <<>> THEN r ELSE ParseParts(ParseStep(r, Head(parts)), Tail(parts))

\* parse_conninfo of replication_overview.py
parse_conninfo(c) == ParseParts(NoParams, c)

\* a value of the params dict: the text after the first '=', or None
Unset == [unset |-> TRUE, text |-> <<>>]
Value(part) == [unset |-> FALSE, text |-> SubSeq(part, 2, Len(part))]

\* params[key] = value
SetItem(d, key, value) ==
    [k \in DOMAIN d \cup {key} |-> IF k = key THEN value ELSE d[k]]

\* if "=" in part: key, value = part.split("=", 1); params[key] = value
RECURSIVE ParamsOf(_, _)
ParamsOf(d, parts) ==
    IF parts = <<>> THEN d
    ELSE ParamsOf(IF Len(Head(parts)) >= 2
                  THEN SetItem(d, Head(parts)[1], Value(Head(parts)))
                  ELSE d,
                  Tail(parts))

\* parse_conninfo of temporal_slot_checker.py
parse_conninfo_checker(c) ==
    LET d == ParamsOf(<<>>, c)
    IN  [by |-> "temporal_slot_checker", raised |-> FALSE,
         dict |-> IF "password" \in DOMAIN d THEN d ELSE SetItem(d, "password", Unset)]

\* pub_host, pub_user, pub_pass = parse_conninfo(conninfo)
ParseConninfo ==
    /\ UNCHANGED <<dvars, mvars, pvars, avars>>
    /\ params = NotParsed
    /\ params' = parse_conninfo(conninfo)
    /\ UNCHANGED <<conninfo, catalog, decoded_slots, replication_lag>>

\* params = parse_conninfo(conninfo), in temporal_slot_checker.py
ParseConninfoChecker ==
    /\ UNCHANGED <<dvars, mvars, pvars, avars>>
    /\ params = NotParsed
    /\ params' = parse_conninfo_checker(conninfo)
    /\ UNCHANGED <<conninfo, catalog, decoded_slots, replication_lag>>

ParseNext == ParseConninfo \/ ParseConninfoChecker

----------------------------------------------------------------------------
(* decode_temporal_slots *)

MaxTemporalSlots == 2   \* rows of pg_replication_slots on the host

\* \d+ : the digit strings of the slot names; int() of each
DigitStrings == {"16398", "016398", "16399", "24601", "24602", "1"}
int(d) ==
    CASE d = "16398" -> 16398
      [] d = "016398" -> 16398
      [] d = "16399" -> 16399
      [] d = "24601" -> 24601
      [] d = "24602" -> 24602
      [] d = "1" -> 1

SubscriptionOids == {16398, 16399}
TableOids == {24601, 24602}

\* a slot name, as the pieces its underscores separate it into
TemporalSlotNames ==
    {<<"pg", sub, "sync", rel, "1">> : sub \in {"16398", "016398", "16399"},
                                        rel \in {"24601", "24602"}}
OrdinarySlotNames ==
    {<<"sub", "a">>,
     <<"pg", "16398", "sync", "24601">>,
     <<"pg", "16398", "sync", "24601", "1", "old">>,
     <<"my", "pg", "16398", "sync", "24601", "1">>,
     <<"pg", "16398", "sync", "orders", "1">>}
AllSlotNames == TemporalSlotNames \cup OrdinarySlotNames

\* the catalogs of one host: the slot names, the oids of its subscriptions and
\* the oids of its tables
Catalogs ==
    [slots : {S \in SUBSET AllSlotNames : Cardinality(S) <= MaxTemporalSlots},
     subscriptions : SUBSET SubscriptionOids,
     tables : SUBSET TableOids]

NoCatalog == [slots |-> {}, subscriptions |-> {}, tables |-> {}]
NotDecoded == [done |-> FALSE, slots |-> <<>>]

\* ^pg_(\d+)_sync_(\d+)_\d+$
Match(slot_name) ==
    /\ Len(slot_name) = 5
    /\ slot_name[1] = "pg" /\ slot_name[3] = "sync"
    /\ slot_name[2] \in DigitStrings
    /\ slot_name[4] \in DigitStrings
    /\ slot_name[5] \in DigitStrings

\* SELECT subname FROM pg_subscription WHERE oid = %s
SubName(c, sub_oid) ==
    IF sub_oid \in c.subscriptions
    THEN (IF sub_oid = 16398 THEN "sub_orders" ELSE "sub_users")
    ELSE None

\* SELECT n.nspname, c.relname FROM pg_class c JOIN pg_namespace n ... WHERE c.oid = %s
TableOf(c, rel_oid) ==
    IF rel_oid \in c.tables
    THEN [schema |-> "public", relname |-> IF rel_oid = 24601 THEN "orders" ELSE "users"]
    ELSE [schema |-> None, relname |-> None]

\* mutant: a slot counts as orphaned only if both lookups find nothing
Orphaned_both(subname, relname) == subname = None /\ relname = None

\* "orphaned": not subname or not relname
Orphaned(subname, relname) == subname = None \/ relname = None

\* the dict stored in decoded_slots[slot_name]
Decoded(c, slot_name) ==
    LET sub_oid == int(slot_name[2])
        rel_oid == int(slot_name[4])
        subname == SubName(c, sub_oid)
        table == TableOf(c, rel_oid)
    IN  [subscription_oid |-> sub_oid,
         subscription_name |-> subname,
         table_oid |-> rel_oid,
         \* f"{schema}.{relname}" if schema and relname else None
         table_name |-> table,
         orphaned |-> Orphaned(subname, table.relname)]

\* the rows of: SELECT slot_name FROM pg_replication_slots WHERE slot_name ~ '^pg_\d+_sync_\d+_\d+$'
TemporalRows(c) == {slot_name \in c.slots : Match(slot_name)}

\* the dict decode_temporal_slots returns, keyed by slot name
decode_temporal_slots(c) ==
    [slot_name \in {n \in TemporalRows(c) : Match(n)} |-> Decoded(c, slot_name)]

\* status['temporal_slots'] = decode_temporal_slots(conn)
DecodeTemporalSlots ==
    /\ UNCHANGED <<dvars, mvars, pvars, avars>>
    /\ ~decoded_slots.done
    /\ decoded_slots' = [done |-> TRUE, slots |-> decode_temporal_slots(catalog)]
    /\ UNCHANGED <<conninfo, params, catalog, replication_lag>>

----------------------------------------------------------------------------
(* Specifications *)

\* the state in which main starts; no probe or assessment is modelled apart
Init ==
    /\ script \in Scripts
    /\ pc = "discover"
    /\ subsOf = [h \in Hosts |-> <<>>]
    /\ subsRead = {}
    /\ slotsOf = [h \in Hosts |-> "unread"]
    /\ subsLeft = MaxRunSubs
    /\ stack = <<Frame(start_host)>>
    /\ visited = {}
    /\ links = <<>>
    /\ link_pairs = {}
    /\ logical_publishers = <<>>
    /\ logical_subscribers = <<>>
    /\ connection_cache = {}
    /\ connection_pools = [h \in Hosts |-> NoPool]
    /\ dfsRuns = [h \in Hosts |-> 0]
    /\ connects = [h \in Hosts |-> 0]
    /\ failedHosts = {}
    /\ tasks = <<>>
    /\ statuses = [h \in Hosts |-> "none"]
    /\ reported = FALSE
    /\ probeFn = "process_host"
    /\ failing = {}
    /\ connFails = FALSE
    /\ ppc = "idle"
    /\ qi = 1
    /\ status = EmptyStatus
    /\ executed = {}
    /\ conn = "none"
    /\ instance_statuses = <<>>
    /\ health_status = InitialHealth
    /\ previous = "none"
    /\ added = NoFact
    /\ conninfo = <<>>
    /\ params = NotParsed
    /\ catalog = NoCatalog
    /\ decoded_slots = NotDecoded
    /\ replication_lag = <<>>

\* discover_replication_topology called on its own, with the larger catalogs
InitDiscover ==
    /\ script \in Scripts
    /\ pc = "discover"
    /\ subsOf = [h \in Hosts |-> <<>>]
    /\ subsRead = {}
    /\ slotsOf = [h \in Hosts |-> "unread"]
    /\ subsLeft = MaxSubs
    /\ stack = <<Frame(start_host)>>
    /\ visited = {}
    /\ links = <<>>
    /\ link_pairs = {}
    /\ logical_publishers = <<>>
    /\ logical_subscribers = <<>>
    /\ connection_cache = {}
    /\ connection_pools = [h \in Hosts |-> NoPool]
    /\ dfsRuns = [h \in Hosts |-> 0]
    /\ connects = [h \in Hosts |-> 0]
    /\ failedHosts = {}
    /\ tasks = <<>>
    /\ statuses = [h \in Hosts |-> "none"]
    /\ reported = FALSE
    /\ probeFn = "process_host"
    /\ failing = {}
    /\ connFails = FALSE
    /\ ppc = "idle"
    /\ qi = 1
    /\ status = EmptyStatus
    /\ executed = {}
    /\ conn = "none"
    /\ instance_statuses = <<>>
    /\ health_status = InitialHealth
    /\ previous = "none"
    /\ added = NoFact
    /\ conninfo = <<>>
    /\ params = NotParsed
    /\ catalog = NoCatalog
    /\ decoded_slots = NotDecoded
    /\ replication_lag = <<>>

\* one call of a probe function, no run of main around it
\* one call of a probe function, no run of main around it; the pool of the
\* host is as the call finds it, with any number of its connections taken
InitProbe ==
    /\ script = "replication_overview"
    /\ pc = "idle"
    /\ subsOf = [h \in Hosts |-> <<>>]
    /\ subsRead = {}
    /\ slotsOf = [h \in Hosts |-> "unread"]
    /\ subsLeft = 0
    /\ stack = <<>>
    /\ visited = {}
    /\ links = <<>>
    /\ link_pairs = {}
    /\ logical_publishers = <<>>
    /\ logical_subscribers = <<>>
    /\ connection_cache = {}
    /\ connection_pools \in
          {[h \in Hosts |-> IF h = probed_host
                            THEN [exists |-> TRUE, used |-> u, closed |-> FALSE]
                            ELSE NoPool] : u \in 0..PoolMax}
    /\ dfsRuns = [h \in Hosts |-> 0]
    /\ connects = [h \in Hosts |-> 0]
    /\ failedHosts = {}
    /\ tasks = <<>>
    /\ statuses = [h \in Hosts |-> "none"]
    /\ reported = FALSE
    /\ probeFn \in ProbeFns
    /\ failing \in SUBSET Reads
    /\ connFails \in BOOLEAN
    /\ ppc = "connect"
    /\ qi = 1
    /\ status = EmptyStatus
    /\ executed = {}
    /\ conn = IF probeFn = "process_host" THEN "none" ELSE "cached"
    /\ instance_statuses = <<>>
    /\ health_status = InitialHealth
    /\ previous = "none"
    /\ added = NoFact
    /\ conninfo = <<>>
    /\ params = NotParsed
    /\ catalog = NoCatalog
    /\ decoded_slots = NotDecoded
    /\ replication_lag = <<>>

\* one call of assess_replication_health, no run of main around it
InitAssess ==
    /\ script = "replication_overview"
    /\ pc = "idle"
    /\ subsOf = [h \in Hosts |-> <<>>]
    /\ subsRead = {}
    /\ slotsOf = [h \in Hosts |-> "unread"]
    /\ subsLeft = 0
    /\ stack = <<>>
    /\ visited = {}
    /\ links = <<>>
    /\ link_pairs = {}
    /\ logical_publishers = <<>>
    /\ logical_subscribers = <<>>
    /\ connection_cache = {}
    /\ connection_pools = [h \in Hosts |-> NoPool]
    /\ dfsRuns = [h \in Hosts |-> 0]
    /\ connects = [h \in Hosts |-> 0]
    /\ failedHosts = {}
    /\ tasks = <<>>
    /\ statuses = [h \in Hosts |-> "none"]
    /\ reported = FALSE
    /\ probeFn = "process_host"
    /\ failing = {}
    /\ connFails = FALSE
    /\ ppc = "idle"
    /\ qi = 1
    /\ status = EmptyStatus
    /\ executed = {}
    /\ conn = "none"
    /\ instance_statuses \in StatusMaps
    /\ health_status = NotAssessed
    /\ previous = "none"
    /\ added = NoFact
    /\ conninfo = <<>>
    /\ params = NotParsed
    /\ catalog = NoCatalog
    /\ decoded_slots = NotDecoded
    /\ replication_lag = <<>>

\* an empty report that is assessed again after every fact added to it
InitReassess ==
    /\ script = "replication_overview"
    /\ pc = "idle"
    /\ subsOf = [h \in Hosts |-> <<>>]
    /\ subsRead = {}
    /\ slotsOf = [h \in Hosts |-> "unread"]
    /\ subsLeft = 0
    /\ stack = <<>>
    /\ visited = {}
    /\ links = <<>>
    /\ link_pairs = {}
    /\ logical_publishers = <<>>
    /\ logical_subscribers = <<>>
    /\ connection_cache = {}
    /\ connection_pools = [h \in Hosts |-> NoPool]
    /\ dfsRuns = [h \in Hosts |-> 0]
    /\ connects = [h \in Hosts |-> 0]
    /\ failedHosts = {}
    /\ tasks = <<>>
    /\ statuses = [h \in Hosts |-> "none"]
    /\ reported = FALSE
    /\ probeFn = "process_host"
    /\ failing = {}
    /\ connFails = FALSE
    /\ ppc = "idle"
    /\ qi = 1
    /\ status = EmptyStatus
    /\ executed = {}
    /\ conn = "none"
    /\ instance_statuses = <<>>
    /\ health_status = InitialHealth
    /\ previous = "none"
    /\ added = NoFact
    /\ conninfo = <<>>
    /\ params = NotParsed
    /\ catalog = NoCatalog
    /\ decoded_slots = NotDecoded
    /\ replication_lag = <<>>

\* parse_conninfo called on its own, for every descriptor
InitParse ==
    /\ script = "replication_overview"
    /\ pc = "idle"
    /\ subsOf = [h \in Hosts |-> <<>>]
    /\ subsRead = {}
    /\ slotsOf = [h \in Hosts |-> "unread"]
    /\ subsLeft = 0
    /\ stack = <<>>
    /\ visited = {}
    /\ links = <<>>
    /\ link_pairs = {}
    /\ logical_publishers = <<>>
    /\ logical_subscribers = <<>>
    /\ connection_cache = {}
    /\ connection_pools = [h \in Hosts |-> NoPool]
    /\ dfsRuns = [h \in Hosts |-> 0]
    /\ connects = [h \in Hosts |-> 0]
    /\ failedHosts = {}
    /\ tasks = <<>>
    /\ statuses = [h \in Hosts |-> "none"]
    /\ reported = FALSE
    /\ probeFn = "process_host"
    /\ failing = {}
    /\ connFails = FALSE
    /\ ppc = "idle"
    /\ qi = 1
    /\ status = EmptyStatus
    /\ executed = {}
    /\ conn = "none"
    /\ instance_statuses = <<>>
    /\ health_status = InitialHealth
    /\ previous = "none"
    /\ added = NoFact
    /\ conninfo \in Descriptors
    /\ params = NotParsed
    /\ catalog = NoCatalog
    /\ decoded_slots = NotDecoded
    /\ replication_lag = <<>>

\* decode_temporal_slots called on its own, for every catalog of the host
InitDecode ==
    /\ script = "replication_overview"
    /\ pc = "idle"
    /\ subsOf = [h \in Hosts |-> <<>>]
    /\ subsRead = {}
    /\ slotsOf = [h \in Hosts |-> "unread"]
    /\ subsLeft = 0
    /\ stack = <<>>
    /\ visited = {}
    /\ links = <<>>
    /\ link_pairs = {}
    /\ logical_publishers = <<>>
    /\ logical_subscribers = <<>>
    /\ connection_cache = {}
    /\ connection_pools = [h \in Hosts |-> NoPool]
    /\ dfsRuns = [h \in Hosts |-> 0]
    /\ connects = [h \in Hosts |-> 0]
    /\ failedHosts = {}
    /\ tasks = <<>>
    /\ statuses = [h \in Hosts |-> "none"]
    /\ reported = FALSE
    /\ probeFn = "process_host"
    /\ failing = {}
    /\ connFails = FALSE
    /\ ppc = "idle"
    /\ qi = 1
    /\ status = EmptyStatus
    /\ executed = {}
    /\ conn = "none"
    /\ instance_statuses = <<>>
    /\ health_status = InitialHealth
    /\ previous = "none"
    /\ added = NoFact
    /\ conninfo = <<>>
    /\ params = NotParsed
    /\ catalog \in Catalogs
    /\ decoded_slots = NotDecoded
    /\ replication_lag = <<>>

\* assess_replication_health called on a report of more hosts with fewer facts each
InitRecommend ==
    /\ script = "replication_overview"
    /\ pc = "idle"
    /\ subsOf = [h \in Hosts |-> <<>>]
    /\ subsRead = {}
    /\ slotsOf = [h \in Hosts |-> "unread"]
    /\ subsLeft = 0
    /\ stack = <<>>
    /\ visited = {}
    /\ links = <<>>
    /\ link_pairs = {}
    /\ logical_publishers = <<>>
    /\ logical_subscribers = <<>>
    /\ connection_cache = {}
    /\ connection_pools = [h \in Hosts |-> NoPool]
    /\ dfsRuns = [h \in Hosts |-> 0]
    /\ connects = [h \in Hosts |-> 0]
    /\ failedHosts = {}
    /\ tasks = <<>>
    /\ statuses = [h \in Hosts |-> "none"]
    /\ reported = FALSE
    /\ probeFn = "process_host"
    /\ failing = {}
    /\ connFails = FALSE
    /\ ppc = "idle"
    /\ qi = 1
    /\ status = EmptyStatus
    /\ executed = {}
    /\ conn = "none"
    /\ instance_statuses \in RecMaps(MaxRecHosts)
    /\ health_status = NotAssessed
    /\ previous = "none"
    /\ added = NoFact
    /\ conninfo = <<>>
    /\ params = NotParsed
    /\ catalog = NoCatalog
    /\ decoded_slots = NotDecoded
    /\ replication_lag = <<>>

\* assess_replication_health of src/rds_replication_overview.py called on its own
InitRdsAssess ==
    /\ script = "replication_overview"
    /\ pc = "idle"
    /\ subsOf = [h \in Hosts |-> <<>>]
    /\ subsRead = {}
    /\ slotsOf = [h \in Hosts |-> "unread"]
    /\ subsLeft = 0
    /\ stack = <<>>
    /\ visited = {}
    /\ links = <<>>
    /\ link_pairs = {}
    /\ logical_publishers = <<>>
    /\ logical_subscribers = <<>>
    /\ connection_cache = {}
    /\ connection_pools = [h \in Hosts |-> NoPool]
    /\ dfsRuns = [h \in Hosts |-> 0]
    /\ connects = [h \in Hosts |-> 0]
    /\ failedHosts = {}
    /\ tasks = <<>>
    /\ statuses = [h \in Hosts |-> "none"]
    /\ reported = FALSE
    /\ probeFn = "process_host"
    /\ failing = {}
    /\ connFails = FALSE
    /\ ppc = "idle"
    /\ qi = 1
    /\ status = EmptyStatus
    /\ executed = {}
    /\ conn = "none"
    /\ instance_statuses \in RdsStatusMaps
    /\ health_status = NotAssessed
    /\ previous = "none"
    /\ added = NoFact
    /\ conninfo = <<>>
    /\ params = NotParsed
    /\ catalog = NoCatalog
    /\ decoded_slots = NotDecoded
    /\ replication_lag \in SeqsUpTo(Lags, MaxLinks)

Next == DfsNext \/ MainNext

\* one run of main
Spec == Init /\ [][Next]_vars

\* one run of main in which every thread that can take a step does
FairRun == Spec /\ WF_vars(Next)

\* discover_replication_topology alone
SpecDiscover == InitDiscover /\ [][DfsNext]_vars
FairDiscover == SpecDiscover /\ WF_vars(DfsNext)

\* one host probe, for every pattern of failing reads
SpecProbe == InitProbe /\ [][ProbeNext]_vars
FairProbe == SpecProbe /\ WF_vars(ProbeNext)

\* one call of assess_replication_health, for every instance_statuses map
SpecAssess == InitAssess /\ [][Assess]_vars

\* assess_replication_health called again after each fact added to a report
SpecReassess == InitReassess /\ [][ReassessNext]_vars

\* one call of assess_replication_health, for reports that reach the grouping
\* of recommendations
SpecRecommend == InitRecommend /\ [][Assess]_vars

\* one call of assess_replication_health of src/rds_replication_overview.py
SpecRdsAssess == InitRdsAssess /\ [][RdsAssess]_vars

\* one call of either parse_conninfo, for every descriptor
SpecParse == InitParse /\ [][ParseNext]_vars

\* one call of decode_temporal_slots, for every catalog
SpecDecode == InitDecode /\ [][DecodeTemporalSlots]_vars

----------------------------------------------------------------------------
(* Topology discovery *)

\* C1: on every subscription graph, cycles and self-subscriptions included,
\* discovery terminates; the body of dfs runs at most once per host, and the
\* host is in the visited set before it is connected to or recursed from.
C1_VisitedBeforeUse ==
    /\ \A h \in Hosts : dfsRuns[h] <= 1 /\ (connects[h] > 0 => h \in visited)
    /\ \A k \in 1..Len(stack) : stack[k].at # "enter" => stack[k].host \in visited
    /\ Len(stack) <= Cardinality(Hosts) + 1
C1_DiscoveryTerminates == [] C1_VisitedBeforeUse /\ <>(stack = <<>>)

\* discovery ended on a graph with a mutual subscription or a self-subscription
C1_Witness ==
    /\ stack = <<>>
    /\ \E h, k \in visited :
          k \in Range(subsOf[h]) /\ h \in Range(subsOf[k]) /\ dfsRuns[h] = 1

\* C2: a host whose connection or query failed stays visited and is not
\* connected to again; when discovery ends every subscription that was read
\* from any host has had its publisher explored, so only the failed host's
\* own branch was abandoned.
C2_FailureAbandonsOwnBranchOnly ==
    /\ failedHosts \subseteq visited
    /\ \A h \in Hosts : connects[h] <= 1
    /\ stack = <<>> => \A h \in subsRead : Range(subsOf[h]) \subseteq visited

\* a host subscribes to H and then to K; H failed before its subscriptions
\* were read, and K was explored all the same
C2_Witness ==
    /\ stack = <<>>
    /\ \E p \in subsRead : \E H, K \in Hosts :
          /\ Cardinality({p, H, K}) = 3
          /\ subsOf[p] = <<H, K>>
          /\ H \in failedHosts /\ H \notin subsRead
          /\ K \in subsRead

\* the pairs (publisher, subscriber) of the subscriptions that discovery read
\* and whose descriptor names a host
SubscriptionPairs ==
    UNION {{<<subsOf[h][k], h>> : k \in {j \in 1..Len(subsOf[h]) : subsOf[h][j] # None}} :
              h \in subsRead}

\* C19: when discovery of replication_overview.py has ended, the links are
\* exactly the pairs (P, H) where H's subscriptions were read and one of them
\* names host P; no pair is recorded twice, and so none is recorded for the
\* reverse direction of a subscription.
C19_LinksAreSubscriptions ==
    (script = "replication_overview" /\ stack = <<>>) =>
       /\ Range(links) = SubscriptionPairs
       /\ Distinct(links)

\* C20: after discovery a host is marked publisher exactly if its slot query
\* succeeded and returned at least one active logical slot, and subscriber
\* exactly if its subscription query succeeded and returned at least one
\* subscription; no host is listed twice in either list.
C20_RolesMatchCatalogs ==
    stack = <<>> =>
       /\ Range(logical_publishers) = {h \in visited : slotsOf[h] = "active"}
       /\ Range(logical_subscribers) = {h \in visited : h \in subsRead /\ subsOf[h] # <<>>}
       /\ Distinct(logical_publishers)
       /\ Distinct(logical_subscribers)

\* C21: a subscription whose descriptor names no host is skipped: no link is
\* recorded for it, and dfs is neither entered nor a connection attempted for
\* the host None that parse_conninfo returned for it.
C21_ParseFailureSkipsItem ==
    /\ \A k \in 1..Len(links) : links[k][1] # None
    /\ dfsRuns[None] = 0
    /\ connects[None] = 0

\* C28: in rds_replication_overview.py a link (X, Y) is recorded only if the
\* subscriptions read on Y hold one whose descriptor names X, and no pair is
\* recorded twice.
C28_RdsLinksDiscoveredOnce ==
    script = "rds_replication_overview" =>
       /\ \A k \in 1..Len(links) :
             /\ links[k][2] \in subsRead
             /\ Contains(subsOf[links[k][2]], links[k][1])
       /\ Distinct(links)

----------------------------------------------------------------------------
(* main *)

\* C3: with a valid configuration main always reaches the step that
\* assembles and emits the report, whatever hosts fail.
C3_ReportAlwaysProduced == pc = "done" => reported

\* C7: every host is submitted to the worker pool exactly once.
C7_OneProbePerHost ==
    /\ \A h \in Hosts : Cardinality(TasksOf(h)) <= 1
    /\ pc = "collect" => \A h \in Range(hosts_to_process) : Cardinality(TasksOf(h)) = 1

\* C8: no connection is in use by two probe invocations that run at the
\* same time.
C8_NoSharedConnection ==
    \A t, u \in Running : t # u => ConnOf(t) # ConnOf(u)

\* C9: at the end of a run every host of discovery's visited set has an
\* entry in instance_statuses.
C9_AllVisitedProbed ==
    (pc = "done" /\ reported) => \A h \in visited : statuses[h] # "none"

\* C10: probes that raise do not stop the collection: once probes were
\* submitted the run ends with the report, the collection loop never sees an
\* exception, every submitted host has an entry, and the entry of a host is
\* the outcome of a probe of that host (an error marker when its probe
\* raised, data when it did not).
C10_FailedProbeDoesNotBlock ==
    /\ (tasks # <<>> /\ pc \in {"except", "finally", "done"}) => reported
    /\ \A t \in TaskIds : tasks[t].st # "raised"
    /\ reported =>
          \A t \in TaskIds :
             /\ tasks[t].collected
             /\ statuses[tasks[t].host] \in {tasks[u].st : u \in TasksOf(tasks[t].host)}

\* the report was produced although the probe of one host raised, and the
\* other host's data was collected
C10_Witness ==
    /\ reported
    /\ \E t, u \in TaskIds :
          /\ tasks[t].host # tasks[u].host
          /\ tasks[t].st = "error" /\ statuses[tasks[t].host] = "error"
          /\ tasks[u].st = "data" /\ statuses[tasks[u].host] = "data"

\* C17: when main has ended, on whichever path, closeall was called on every
\* pool stored in connection_pools, so every connection of the run is
\* closed, those of discovery's connection_cache and those a probe still
\* held included.
C17_PoolsClosedAtExit ==
    pc = "done" =>
       /\ \A h \in Hosts : connection_pools[h].exists => connection_pools[h].closed
       /\ \A h \in connection_cache :
             connection_pools[h].exists /\ connection_pools[h].closed

\* main ended through "except Exception" while discovery's cached connection
\* was still checked out of its pool
C17_Witness ==
    /\ pc = "done" /\ ~reported
    /\ \E h \in connection_cache :
          connection_pools[h].used > 0 /\ connection_pools[h].closed

\* C11: the run has an overall timeout: when a probe does not finish, it is
\* abandoned and the run still ends with a report of the host statuses
\* collected so far; main never waits for that probe for ever.
C11_TimeoutEndsRun == (Hung # {}) ~> (pc = "done" /\ reported)

----------------------------------------------------------------------------
(* Host prober *)

\* C4: when exactly one catalog read of a probe fails, the other reads are
\* still issued and their fields populated, the failed read leaves its
\* unknown/empty value, and the status has no top-level error marker.
C4_EachReadIsolated ==
    (ppc = "returned" /\ ~connFails /\ Cardinality(failing) = 1) =>
       /\ status.error = "absent"
       /\ executed = Reads
       /\ \A r \in Reads \ failing : Populated(r, status)
       /\ \A r \in failing : Unknown(r, status)

\* C5: when every read of a probe fails, the returned status is the
\* top-level error marker alone, without slot data.
C5_AllFailedIsErrorMarker ==
    (ppc = "returned" /\ failing = Reads) =>
       /\ status.error # "absent"
       /\ status.replication_slots = "absent"
       /\ status.lagging_slots = "absent"
       /\ status.inactive_replication = "absent"

\* a probe whose connection works and whose every read fails has returned
C5_Witness ==
    ppc = "returned" /\ failing = Reads /\ ~connFails /\ "temporal" \in executed

\* C16: a probe that took its connection from the pool and saw a read fail
\* on it does not hand that connection back to the pool with putconn.
C16_FailedConnectionDiscarded ==
    (ppc = "returned" /\ probeFn = "process_host" /\ ~connFails /\ failing # {}) =>
       conn # "putconn"

\* C18: a probe that acquires from a pool with all 5 connections checked out
\* does not wait: the acquire raises, the probe returns the error marker of
\* its host without having taken or returned a connection, and every probe
\* call returns.
C18_AcquireFailsSoftly ==
    /\ connection_pools[probed_host].used <= PoolMax
    /\ (/\ probeFn = "process_host" /\ conn = "none"
        /\ ~CanGetConn(connection_pools, probed_host)) =>
          /\ ppc \in {"connect", "returned"}
          /\ ppc = "returned" => (status = ErrorStatus /\ executed = {})
C18_SaturatedAcquireReturns == [] C18_AcquireFailsSoftly /\ <>(ppc = "returned")

\* process_host was called on a saturated pool of an otherwise healthy host
\* and has returned
C18_Witness ==
    /\ probeFn = "process_host" /\ ppc = "returned"
    /\ ~connFails /\ failing = {}
    /\ connection_pools[probed_host].used = PoolMax
    /\ status.error # "absent"

----------------------------------------------------------------------------
(* Health assessor *)

HostErrorIssues(host) ==
    {k \in 1..Len(health_status.issues) :
        /\ health_status.issues[k].kind = "host_error"
        /\ health_status.issues[k].host = get_short_hostname(host)}

\* C6: a host whose status is the error marker makes overall CRITICAL and
\* contributes exactly one "Error on host" issue.
C6_FailedProbeIsCritical ==
    health_status.overall # "none" =>
       \A k \in 1..Len(instance_statuses) :
          instance_statuses[k].status.error =>
             /\ health_status.overall = "CRITICAL"
             /\ Cardinality(HostErrorIssues(instance_statuses[k].host)) = 1

LagIssues ==
    {k \in 1..Len(health_status.issues) :
        health_status.issues[k].kind \in {"critical_lag", "high_lag"}}

\* the slots of every host of a report
AllSlots(m) == UNION {Range(m[k].status.replication_slots) : k \in 1..Len(m)}

\* C12: a slot lagging 100 MB or more, exactly 100 MB included, makes overall
\* CRITICAL; a slot lagging 10 MB or more, exactly 10 MB included, makes
\* overall at least WARNING; a report whose slots all lag less than 10 MB has
\* no lag issue.
C12_LagBoundaries ==
    health_status.overall # "none" =>
       /\ (\E s \in AllSlots(instance_statuses) : s.lag_mb >= 100)
             => health_status.overall = "CRITICAL"
       /\ (\E s \in AllSlots(instance_statuses) : s.lag_mb >= 10)
             => health_status.overall \in {"WARNING", "CRITICAL"}
       /\ (\A s \in AllSlots(instance_statuses) : s.lag_mb < 10) => LagIssues = {}

\* the issues that name the given slot or subscription of the given host
IssuesAbout(kind, name, host) ==
    {k \in 1..Len(health_status.issues) :
        /\ health_status.issues[k].kind = kind
        /\ health_status.issues[k].slot = name
        /\ health_status.issues[k].host = get_short_hostname(host)}

\* C13: every inactive slot and every disabled subscription listed in some
\* host's inactive_replication makes overall WARNING or CRITICAL and has an
\* entry in the issues list.
C13_InactiveOrDisabledWarns ==
    health_status.overall # "none" =>
       \A k \in 1..Len(instance_statuses) :
          LET host == instance_statuses[k].host
              inactive_info == instance_statuses[k].status IN
          /\ \A n \in Range(inactive_info.inactive_slots) :
                /\ health_status.overall \in {"WARNING", "CRITICAL"}
                /\ IssuesAbout("inactive_slot", n, host) # {}
          /\ \A n \in Range(inactive_info.disabled_subscriptions) :
                /\ health_status.overall \in {"WARNING", "CRITICAL"}
                /\ IssuesAbout("disabled_subscription", n, host) # {}

\* C14: a report with more than 5 issues is CRITICAL, whatever the severity
\* of the rules that raised them.
C14_ManyIssuesCritical ==
    (health_status.overall # "none" /\ Len(health_status.issues) > 5) =>
       health_status.overall = "CRITICAL"

----------------------------------------------------------------------------
(* Connection descriptors *)

\* the tokens of a descriptor that carry key=...
HasKey(c, key) == \E k \in 1..Len(c) : Len(c[k]) >= 2 /\ c[k][1] = key

\* the descriptor without its tokens that contain no '='
WithoutBareTokens(c) == SelectSeq(c, LAMBDA part : Len(part) >= 2)

\* C22: for every descriptor string both parse_conninfo functions return
\* without raising; a key that no token of the string carries is None in the
\* result, or not present in it; and the tokens without '=' are skipped: the
\* result is the one of the descriptor without them.
C22_ParseNeverRaises ==
    /\ ~params.raised
    /\ params.by = "replication_overview" =>
          /\ \A key \in {"host", "user", "password"} :
                ~HasKey(conninfo, key) => params[key] = None
          /\ params = parse_conninfo(WithoutBareTokens(conninfo))
    /\ params.by = "temporal_slot_checker" =>
          /\ \A key \in KeyPieces :
                ~HasKey(conninfo, key) =>
                   \/ key \notin DOMAIN params.dict
                   \/ params.dict[key] = Unset
          /\ params = parse_conninfo_checker(WithoutBareTokens(conninfo))
\* a descriptor with a token without '=', a token with a key, and no host
C22_Witness ==
    /\ params.by = "replication_overview"
    /\ \E k \in 1..Len(conninfo) : Len(conninfo[k]) = 1
    /\ HasKey(conninfo, "user") /\ params.user = "pub1"
    /\ ~HasKey(conninfo, "host") /\ params.host = None

----------------------------------------------------------------------------
(* Temporal slots *)

\* C23: a slot is marked orphaned exactly if its name has the form
\* pg_<subscription-id>_sync_<table-id>_<sequence> and the host has no
\* subscription or no table with that id; a slot of any other name is not
\* decoded at all.
C23_OrphanedIffLookupFails ==
    decoded_slots.done =>
       /\ DOMAIN decoded_slots.slots = catalog.slots \cap TemporalSlotNames
       /\ \A n \in DOMAIN decoded_slots.slots :
             decoded_slots.slots[n].orphaned <=>
                \/ int(n[2]) \notin catalog.subscriptions
                \/ int(n[4]) \notin catalog.tables
\* a temporal slot whose subscription exists and whose table is gone, next to
\* a slot of another name
C23_Witness ==
    /\ decoded_slots.done
    /\ \E n \in DOMAIN decoded_slots.slots :
          /\ decoded_slots.slots[n].orphaned
          /\ int(n[2]) \in catalog.subscriptions
          /\ int(n[4]) \notin catalog.tables
    /\ \E n \in catalog.slots : n \in OrdinarySlotNames

\* C24: a temporal slot whose subscription id is not found on the host is
\* decoded as orphaned with no table name, whether its table exists or not.
C24_MissingSubscriptionHasNoTable ==
    decoded_slots.done =>
       \A n \in DOMAIN decoded_slots.slots :
          int(n[2]) \notin catalog.subscriptions =>
             /\ decoded_slots.slots[n].orphaned
             /\ decoded_slots.slots[n].table_name = TableOf(NoCatalog, int(n[4]))

----------------------------------------------------------------------------
(* Recommendations *)

Recommendations == Range(health_status.recommendations)
OfKind(kind) == {r \in Recommendations : r.kind = kind}

\* C25: the recommendations list is in ascending order and holds no string
\* twice, however many slots share a name, a short host name or a state.
C25_RecommendationsSortedDistinct ==
    health_status.overall # "none" =>
       LET r == health_status.recommendations
       IN  /\ Distinct(r)
           /\ \A a, b \in 1..Len(r) : a < b => StrLess(r[a], r[b])
\* two lagging slots of the same name on two hosts of the same short name
C25_Witness ==
    /\ health_status.overall # "none"
    /\ Len(health_status.slots_with_lag) = 2
    /\ Cardinality(OfKind("blocking_slot")) = 1
    /\ Len(health_status.recommendations) >= 3

\* the lagging slots whose name is recorded with this state
LaggingIn(state) ==
    {k \in 1..Len(health_status.slots_with_lag) :
        health_status.slot_states[health_status.slots_with_lag[k][1]] = state}

\* C26: up to 3 slots affected by an issue kind get one recommendation each;
\* more than 3 get a grouped summary instead, which names at most 3 slots and
\* counts the others as 'and N more'. 4 hosts with one inactive slot each and
\* nothing else give WARNING, 4 issues and the grouped recommendation.
C26_GroupingThreshold ==
    health_status.overall # "none" =>
       LET lagging == health_status.slots_with_lag
           inactive == health_status.inactive_slots
       IN  /\ Len(lagging) <= 3 =>
                 /\ OfKind("blocking_state") = {}
                 /\ \A p \in Range(lagging) : \E r \in OfKind("blocking_slot") :
                       r.slot = p[1] /\ r.host = get_short_hostname(p[2])
           /\ Len(lagging) > 3 =>
                 /\ OfKind("blocking_slot") = {}
                 /\ OfKind("blocking_state") # {}
                 /\ \A r \in OfKind("blocking_state") :
                       /\ Len(r.slots) <= 3
                       /\ Len(r.slots) + r.more = Cardinality(LaggingIn(r.state))
                       /\ r.more > 0 => Len(r.slots) = 3
           /\ Len(inactive) <= 3 =>
                 /\ OfKind("inactive_detected") = {}
                 /\ \A p \in Range(inactive) : \E r \in OfKind("subscriber_of_slot") :
                       r.slot = p[1] /\ r.host = get_short_hostname(p[2])
           /\ Len(inactive) > 3 =>
                 /\ OfKind("subscriber_of_slot") = {}
                 /\ \E r \in OfKind("inactive_detected") :
                       /\ OfKind("inactive_detected") = {r}
                       /\ Len(r.slots) = 3
                       /\ r.more = Len(inactive) - 3
           /\ ( /\ Len(instance_statuses) = 4
                /\ \A k \in 1..4 :
                      /\ instance_statuses[k].status.replication_slots = <<>>
                      /\ Len(instance_statuses[k].status.inactive_slots) = 1 )
              => /\ health_status.overall = "WARNING"
                 /\ Len(health_status.issues) = 4
                 /\ OfKind("inactive_detected") # {}
                 /\ OfKind("subscriber_of_slot") = {}
\* 4 hosts with one inactive slot each and nothing else, assessed
C26_Witness ==
    /\ health_status.overall # "none"
    /\ Len(instance_statuses) = 4
    /\ \A k \in 1..4 :
          /\ instance_statuses[k].status.replication_slots = <<>>
          /\ Len(instance_statuses[k].status.inactive_slots) = 1
    /\ \E r \in OfKind("inactive_detected") : r.more = 1

\* the orders in which the entries of a dict can have been inserted
Orders(m) ==
    {[k \in 1..Len(m) |-> m[p[k]]] :
        p \in {f \in [1..Len(m) -> 1..Len(m)] : \A a, b \in 1..Len(m) : a # b => f[a] # f[b]}}

\* C29: two maps with the same host -> status entries, inserted in different
\* orders, give the same overall severity and the same recommendations list.
C29_OrderIndependent ==
    health_status.overall # "none" =>
       \A m \in Orders(instance_statuses) :
          /\ assess_replication_health(m).overall = health_status.overall
          /\ assess_replication_health(m).recommendations = health_status.recommendations

\* the slots of the report, each with the host it is on
SlotsOnHosts ==
    UNION {{<<instance_statuses[k].host, slot_info>> :
               slot_info \in Range(instance_statuses[k].status.replication_slots)} :
           k \in 1..Len(instance_statuses)}

\* C30: the state reported for a slot is the state of that slot on the host
\* named with it: each lagging slot's own recommendation carries the state the
\* slot has on its host, and the summary counts, per state, the slots of all
\* hosts that are in it.
C30_StatePerHostSlot ==
    health_status.overall # "none" =>
       /\ Len(health_status.slots_with_lag) <= 3 =>
             \A p \in SlotsOnHosts :
                p[2].lag_mb > 10 =>
                   \E r \in OfKind("blocking_slot") :
                      /\ r.slot = p[2].name
                      /\ r.host = get_short_hostname(p[1])
                      /\ r.state = SlotState(p[2])
       /\ \A r \in OfKind("state_summary") :
             \A p \in SlotsOnHosts :
                \E k \in 1..Len(r.counts) :
                   /\ r.counts[k][1] = SlotState(p[2])
                   /\ r.counts[k][2] =
                         Cardinality({q \in SlotsOnHosts : SlotState(q[2]) = SlotState(p[2])})

----------------------------------------------------------------------------
(* The older assessor *)

\* C27: in src/rds_replication_overview.py a host with an error marker makes
\* the result CRITICAL whatever the hosts after it report, and the overall
\* severity does not depend on the order of the hosts in instance_statuses.
C27_NeverDowngraded ==
    (health_status.overall # "none") =>
       /\ (\E k \in 1..Len(instance_statuses) : instance_statuses[k].status.error)
             => health_status.overall = "CRITICAL"
       /\ \A m \in Orders(instance_statuses) :
             rds_assess_replication_health(replication_lag, m).overall
                = health_status.overall

====
